---- MODULE Spec2Model ----
(***************************************************************************)
(* SDG proposal evaluator (src/proposal_evaluator.py).                     *)
(*                                                                         *)
(* Strings are sequences of one-character strings.  A Python value that    *)
(* may be unbound, None or a str is a record [k, v].  A dict is the        *)
(* sequence of its entries in insertion order (CPython dict order).        *)
(***************************************************************************)
EXTENDS Integers, Sequences, FiniteSets, TLC

VARIABLES
    pc,                \* position of main()
    uploaded_file,     \* value returned by st.file_uploader
    proposal_text,     \* local of main
    preview,           \* text shown under "Proposal Text Preview:"
    pressed,           \* value returned by st.button("Evaluate Proposal")
    posts,             \* HTTP POSTs issued by requests.post in this run
    response,          \* what the API answered to the POST
    errors,            \* st.error messages shown in this run
    progress_bar,      \* st.progress widget
    progress_text,     \* st.empty placeholder holding the status text
    evaluation_result, \* local of main
    parsed_results,    \* local of main
    results_header,    \* st.subheader("Evaluation Results:") shown
    chart,             \* rows handed to st.bar_chart
    written,           \* st.write lines, in the order emitted
    exception,         \* exception that escaped main ("none" if none)
    ppc,               \* position of a direct call of parse_evaluation_text
    evaluation_text,   \* its argument
    parse_ret          \* what it returned or raised

vars == <<pc, uploaded_file, proposal_text, preview, pressed, posts, response,
          errors, progress_bar, progress_text, evaluation_result,
          parsed_results, results_header, chart, written, exception,
          ppc, evaluation_text, parse_ret>>

mainVars == <<pc, uploaded_file, proposal_text, preview, pressed, posts,
              response, errors, progress_bar, progress_text,
              evaluation_result, parsed_results, results_header, chart,
              written, exception>>

parseVars == <<ppc, evaluation_text, parse_ret>>

(***************************************************************************)
(* Bounds                                                                  *)
(***************************************************************************)
MaxLines == 3        \* lines of a text handed directly to the parser
MaxReplyLines == 2   \* lines of the content of an API reply
MaxParts == 1        \* pages / paragraphs of an uploaded document

PreviewLen == 500

(***************************************************************************)
(* Python values                                                           *)
(***************************************************************************)
Unbound == [k |-> "unbound", v |-> <<>>]
NoneV == [k |-> "None", v |-> <<>>]
Str(s) == [k |-> "str", v |-> s]
Truthy(x) == x.k = "str" /\ x.v # <<>>

SeqsUpTo(S, n) == UNION {[1..k -> S] : k \in 0..n}

(***************************************************************************)
(* String helpers (str.strip, str.startswith, str.split, re.search, int)   *)
(***************************************************************************)
Whitespace == {" ", "\t", "\r", "\n"}
Digits == {"0", "1", "2", "3", "4", "5", "6", "7", "8", "9"}
DigitVal(c) == CASE c = "0" -> 0 [] c = "1" -> 1 [] c = "2" -> 2 [] c = "3" -> 3
                 [] c = "4" -> 4 [] c = "5" -> 5 [] c = "6" -> 6 [] c = "7" -> 7
                 [] c = "8" -> 8 [] c = "9" -> 9

RECURSIVE LStrip(_)
LStrip(s) == IF s = <<>> THEN s
             ELSE IF Head(s) \in Whitespace THEN LStrip(Tail(s)) ELSE s

RECURSIVE RStrip(_)
RStrip(s) == IF s = <<>> THEN s
             ELSE IF s[Len(s)] \in Whitespace THEN RStrip(SubSeq(s, 1, Len(s) - 1))
             ELSE s

Strip(s) == RStrip(LStrip(s))

StartsWith(s, p) == Len(s) >= Len(p) /\ SubSeq(s, 1, Len(p)) = p

\* index of the first occurrence of p in s, 0 if there is none (str.find + 1)
Find(s, p) ==
    LET hits == {i \in 1..(Len(s) - Len(p) + 1) : SubSeq(s, i, i + Len(p) - 1) = p}
    IN IF hits = {} THEN 0 ELSE CHOOSE i \in hits : \A j \in hits : i <= j

\* s.split(p, 1)
SplitOnce(s, p) ==
    LET i == Find(s, p)
    IN IF i = 0 THEN <<s>>
       ELSE <<SubSeq(s, 1, i - 1), SubSeq(s, i + Len(p), Len(s))>>

\* s.split(p)
RECURSIVE Split(_, _)
Split(s, p) ==
    LET i == Find(s, p)
    IN IF i = 0 THEN <<s>>
       ELSE <<SubSeq(s, 1, i - 1)>> \o Split(SubSeq(s, i + Len(p), Len(s)), p)

RECURSIVE Join(_, _)
Join(ls, p) == IF ls = <<>> THEN <<>>
               ELSE IF Len(ls) = 1 THEN ls[1]
               ELSE ls[1] \o p \o Join(Tail(ls), p)

RECURSIVE TakeDigits(_)
TakeDigits(s) == IF s = <<>> \/ Head(s) \notin Digits THEN <<>>
                 ELSE <<Head(s)>> \o TakeDigits(Tail(s))

\* re.search(r'(\d+)', s): the first run of digits, <<>> when there is no match
RECURSIVE FirstDigitRun(_)
FirstDigitRun(s) == IF s = <<>> THEN <<>>
                    ELSE IF Head(s) \in Digits THEN TakeDigits(s)
                    ELSE FirstDigitRun(Tail(s))

\* value of a non-empty run of decimal digits
RECURSIVE DigitsToInt(_)
DigitsToInt(ds) == IF ds = <<>> THEN 0
                   ELSE 10 * DigitsToInt(SubSeq(ds, 1, Len(ds) - 1)) + DigitVal(ds[Len(ds)])

\* int(s) of a str: [ok, val]; ok = FALSE stands for ValueError
PyInt(s) ==
    LET t == Strip(s)
        signed == t # <<>> /\ Head(t) \in {"+", "-"}
        body == IF signed THEN Tail(t) ELSE t
        good == body # <<>> /\ \A i \in 1..Len(body) : body[i] \in Digits
    IN IF ~good THEN [ok |-> FALSE, val |-> 0]
       ELSE [ok |-> TRUE,
             val |-> IF signed /\ Head(t) = "-" THEN 0 - DigitsToInt(body)
                     ELSE DigitsToInt(body)]

(***************************************************************************)
(* parse_evaluation_text                                                   *)
(***************************************************************************)
SDG == <<"S", "D", "G">>
Colon == <<":">>
Sep == <<" ", "-", " ">>
Newline == <<"\n">>

Keys(d) == {d[i].key : i \in 1..Len(d)}

\* results[k] = {...} with the first assignment kept (mutant of DictSet)
DictSetKeepFirst(d, k, val) ==
    IF k \in Keys(d) THEN d ELSE Append(d, [key |-> k, val |-> val])

\* results[k] = {...}: an existing key keeps its position and takes the new value
DictSet(d, k, val) ==
    IF k \in Keys(d)
    THEN [i \in 1..Len(d) |-> IF d[i].key = k THEN [key |-> k, val |-> val] ELSE d[i]]
    ELSE Append(d, [key |-> k, val |-> val])

\* one iteration of the for loop: [raised, results]
ParseLine(results, rawline) ==
    LET line == Strip(rawline)
        parts == SplitOnce(line, Colon)
        sdg == Strip(parts[1])
        m == FirstDigitRun(sdg)
        score_and_explanation == Strip(parts[2])
        se == SplitOnce(score_and_explanation, Sep)
    IN IF line = <<>> THEN [raised |-> "none", results |-> results]
       ELSE IF ~StartsWith(line, SDG) THEN [raised |-> "none", results |-> results]
       ELSE IF m = <<>> THEN [raised |-> "AttributeError", results |-> results]
       ELSE IF Len(parts) < 2 THEN [raised |-> "IndexError", results |-> results]
       ELSE IF Len(se) < 2 THEN [raised |-> "none", results |-> results]
       ELSE [raised |-> "none",
             results |-> DictSet(results, DigitsToInt(m),
                                 [score |-> Strip(se[1]), explanation |-> Strip(se[2])])]

RECURSIVE ParseLoop(_, _)
ParseLoop(results, lines) ==
    IF lines = <<>> THEN [raised |-> "none", results |-> results]
    ELSE LET r == ParseLine(results, Head(lines))
         IN IF r.raised # "none" THEN r ELSE ParseLoop(r.results, Tail(lines))

parse_evaluation_text(text) == ParseLoop(<<>>, Split(text, Newline))

\* no call made yet
NoRet == [raised |-> "pending", results |-> <<>>]

(***************************************************************************)
(* Input texts: lines the model's reply may contain                        *)
(***************************************************************************)
LineValid1a == SDG \o <<" ", "1", ":", " ", "7", " ", "-", " ", "a">>
LineValid1b == <<" ">> \o SDG \o <<" ", "1", ":", "3", " ", "-", " ", "b", " ">>
LineValid2 == SDG \o <<" ", "2", ":", " ", "5", " ", "-", " ", "c">>
LineValid12 == SDG \o <<" ", "1", "2", ":", " ", "9", " ", "-", " ", "d", " ", "-", " ", "e">>
LineBadScore == SDG \o <<" ", "3", ":", " ", "x", " ", "-", " ", "f">>
LineNoSep == SDG \o <<" ", "2", ":", " ", "8", " ", "c">>
LineNoSepNoDigit == SDG \o <<"s", ":", " ", "5", " ", "x">>
LineNoDigit == SDG \o <<":", " ", "7", " ", "-", " ", "x">>
LineNoColon == SDG \o <<" ", "1", " ", "-", " ", "n">>
LineComment == <<"n", "o", "t", "e", ":", " ", "1", " ", "-", " ", "z">>
LineBlank == <<" ">>

LineSamples == {LineValid1a, LineValid1b, LineValid2, LineValid12, LineBadScore,
                LineNoSep, LineNoSepNoDigit, LineNoDigit, LineNoColon,
                LineComment, LineBlank}

\* lines of the replies the API hands to main
ReplyLineSamples == {LineValid1a, LineValid1b, LineValid2, LineBadScore,
                     LineNoSep, LineNoDigit, LineNoColon}

Texts(n) == {Join(ls, Newline) : ls \in SeqsUpTo(LineSamples, n)}

ReplyTexts(n) == {Join(ls, Newline) : ls \in SeqsUpTo(ReplyLineSamples, n)}

(***************************************************************************)
(* Uploaded documents and their extraction                                 *)
(***************************************************************************)
PdfMime == "application/pdf"
DocxMime == "application/vnd.openxmlformats-officedocument.wordprocessingml.document"
OtherMime == "application/octet-stream"

PartText == <<"p">>
NoFile == [type |-> "None", readable |-> FALSE, parts |-> <<>>]
Files == [type : {PdfMime, DocxMime, OtherMime},
          readable : BOOLEAN,
          parts : SeqsUpTo({PartText}, MaxParts)]

RECURSIVE ConcatPages(_)
ConcatPages(parts) == IF parts = <<>> THEN <<>>
                      ELSE Head(parts) \o ConcatPages(Tail(parts))

RECURSIVE ConcatParagraphs(_)
ConcatParagraphs(parts) == IF parts = <<>> THEN <<>>
                           ELSE Head(parts) \o Newline \o ConcatParagraphs(Tail(parts))

read_pdf(file) ==
    IF file.readable THEN [ret |-> Str(ConcatPages(file.parts)), err |-> {}]
    ELSE [ret |-> NoneV, err |-> {"Error reading PDF"}]

read_docx(file) ==
    IF file.readable THEN [ret |-> Str(ConcatParagraphs(file.parts)), err |-> {}]
    ELSE [ret |-> NoneV, err |-> {"Error reading DOCX"}]

PreviewOf(text) ==
    IF ~Truthy(text) THEN <<>>
    ELSE IF Len(text.v) > PreviewLen
         THEN SubSeq(text.v, 1, PreviewLen) \o <<".", ".", ".">>
         ELSE text.v

(***************************************************************************)
(* evaluate_proposal                                                       *)
(***************************************************************************)
Statuses == {200, 300, 404, 500}
NoBody == [shape |-> "none", content |-> <<>>]
NoResponse == [kind |-> "none", status |-> 0, body |-> NoBody]
Bodies == {[shape |-> "no_choices", content |-> <<>>]}
          \cup {[shape |-> "content", content |-> t] : t \in ReplyTexts(MaxReplyLines)}
Responses == {[kind |-> "transport", status |-> 0, body |-> NoBody]}
             \cup [kind : {"http"}, status : Statuses, body : Bodies]

\* the call without the status check (mutant of raise_for_status)
raise_for_status_skipped(status) == FALSE

\* response.raise_for_status(): TRUE when it raises HTTPError (4xx or 5xx)
raise_for_status(status) == 400 <= status /\ status < 600

\* [raised, ret, err]: the exception leaving the function, its return value and
\* the st.error it shows
evaluate_proposal(resp) ==
    IF resp.kind = "transport" \/ raise_for_status(resp.status)
    THEN [raised |-> "none", ret |-> NoneV, err |-> {"API request failed"}]
    ELSE IF resp.body.shape = "no_choices"
    THEN [raised |-> "KeyError", ret |-> NoneV, err |-> {}]
    ELSE IF resp.body.content = <<>>
    THEN [raised |-> "none", ret |-> NoneV, err |-> {"API returned empty content."}]
    ELSE [raised |-> "none", ret |-> Str(resp.body.content), err |-> {}]

(***************************************************************************)
(* main                                                                    *)
(***************************************************************************)
NoChart == [drawn |-> FALSE, rows |-> <<>>]

\* sdg_df.sort_values('SDG')
RECURSIVE SortBySDG(_)
SortBySDG(rows) ==
    IF rows = <<>> THEN <<>>
    ELSE LET m == CHOOSE i \in 1..Len(rows) :
                      \A j \in 1..Len(rows) : rows[i].SDG <= rows[j].SDG
         IN <<rows[m]>> \o
            SortBySDG([i \in 1..(Len(rows) - 1) |-> IF i < m THEN rows[i] ELSE rows[i + 1]])

Init ==
    /\ pc = "start"
    /\ uploaded_file = NoFile
    /\ proposal_text = Unbound
    /\ preview = <<>>
    /\ pressed = FALSE
    /\ posts = 0
    /\ response = NoResponse
    /\ errors = {}
    /\ progress_bar = "absent"
    /\ progress_text = "absent"
    /\ evaluation_result = Unbound
    /\ parsed_results = <<>>
    /\ results_header = FALSE
    /\ chart = NoChart
    /\ written = <<>>
    /\ exception = "none"
    /\ ppc = "idle"
    /\ evaluation_text = <<>>
    /\ parse_ret = NoRet

\* uploaded_file is None: main ends
NoUpload ==
    /\ pc = "start"
    /\ pc' = "done"
    /\ UNCHANGED <<uploaded_file, proposal_text, preview, pressed, posts, response,
                   errors, progress_bar, progress_text, evaluation_result,
                   parsed_results, results_header, chart, written, exception,
                   parseVars>>

Extracted(f, r) ==
    /\ uploaded_file' = f
    /\ proposal_text' = r.ret
    /\ errors' = errors \cup r.err
    /\ preview' = PreviewOf(r.ret)
    /\ pc' = "button"
    /\ UNCHANGED <<pressed, posts, response, progress_bar, progress_text,
                   evaluation_result, parsed_results, results_header, chart,
                   written, exception, parseVars>>

ExtractPdf(f) ==
    /\ pc = "start"
    /\ f.type = PdfMime
    /\ Extracted(f, read_pdf(f))

ExtractDocx(f) ==
    /\ pc = "start"
    /\ f.type = DocxMime
    /\ Extracted(f, read_docx(f))

\* the else branch: the f-string names e, which is not bound: NameError
ExtractUnsupported(f) ==
    /\ pc = "start"
    /\ f.type \notin {PdfMime, DocxMime}
    /\ uploaded_file' = f
    /\ exception' = "NameError"
    /\ pc' = "done"
    /\ UNCHANGED <<proposal_text, preview, pressed, posts, response, errors,
                   progress_bar, progress_text, evaluation_result, parsed_results,
                   results_header, chart, written, parseVars>>

ButtonNotPressed ==
    /\ pc = "button"
    /\ pressed' = FALSE
    /\ pc' = "done"
    /\ UNCHANGED <<uploaded_file, proposal_text, preview, posts, response, errors,
                   progress_bar, progress_text, evaluation_result, parsed_results,
                   results_header, chart, written, exception, parseVars>>

\* the button returns True; main runs up to requests.post inside evaluate_proposal
ButtonPressed ==
    /\ pc = "button"
    /\ pressed' = TRUE
    /\ progress_bar' = "25"
    /\ progress_text' = "Step 2: Sending data to ChatGenAI..."
    /\ posts' = posts + 1
    /\ pc' = "posting"
    /\ UNCHANGED <<uploaded_file, proposal_text, preview, response, errors,
                   evaluation_result, parsed_results, results_header, chart,
                   written, exception, parseVars>>

\* evaluate_proposal returns: the rest of the try block runs
EvaluateReturns(resp) ==
    /\ pc = "posting"
    /\ evaluate_proposal(resp).raised = "none"
    /\ response' = resp
    /\ evaluation_result' = evaluate_proposal(resp).ret
    /\ errors' = errors \cup evaluate_proposal(resp).err
    /\ progress_bar' = "100"
    /\ progress_text' = "Evaluation complete!"
    /\ pc' = "after_try"
    /\ UNCHANGED <<uploaded_file, proposal_text, preview, pressed, posts,
                   parsed_results, results_header, chart, written, exception,
                   parseVars>>

\* evaluate_proposal raises: the except Exception block of main runs
EvaluateRaises(resp) ==
    /\ pc = "posting"
    /\ evaluate_proposal(resp).raised # "none"
    /\ response' = resp
    /\ errors' = errors \cup {"An error occurred during evaluation"}
    /\ progress_text' = "Evaluation failed."
    /\ progress_bar' = "empty"
    /\ pc' = "after_try"
    /\ UNCHANGED <<uploaded_file, proposal_text, preview, pressed, posts,
                   evaluation_result, parsed_results, results_header, chart,
                   written, exception, parseVars>>

\* if evaluation_result: with the name never assigned
ResultUnbound ==
    /\ pc = "after_try"
    /\ evaluation_result = Unbound
    /\ exception' = "UnboundLocalError"
    /\ pc' = "done"
    /\ UNCHANGED <<uploaded_file, proposal_text, preview, pressed, posts, response,
                   errors, progress_bar, progress_text, evaluation_result,
                   parsed_results, results_header, chart, written, parseVars>>

ResultFalsy ==
    /\ pc = "after_try"
    /\ evaluation_result # Unbound
    /\ ~Truthy(evaluation_result)
    /\ pc' = "done"
    /\ UNCHANGED <<uploaded_file, proposal_text, preview, pressed, posts, response,
                   errors, progress_bar, progress_text, evaluation_result,
                   parsed_results, results_header, chart, written, exception,
                   parseVars>>

ParseResults ==
    /\ pc = "after_try"
    /\ Truthy(evaluation_result)
    /\ parse_evaluation_text(evaluation_result.v).raised = "none"
    /\ parsed_results' = parse_evaluation_text(evaluation_result.v).results
    /\ results_header' = TRUE
    /\ pc' = "chart"
    /\ UNCHANGED <<uploaded_file, proposal_text, preview, pressed, posts, response,
                   errors, progress_bar, progress_text, evaluation_result, chart,
                   written, exception, parseVars>>

ParseAborts ==
    /\ pc = "after_try"
    /\ Truthy(evaluation_result)
    /\ parse_evaluation_text(evaluation_result.v).raised # "none"
    /\ exception' = parse_evaluation_text(evaluation_result.v).raised
    /\ pc' = "done"
    /\ UNCHANGED <<uploaded_file, proposal_text, preview, pressed, posts, response,
                   errors, progress_bar, progress_text, evaluation_result,
                   parsed_results, results_header, chart, written, parseVars>>

ScoresAreInts(d) == \A i \in 1..Len(d) : PyInt(d[i].val.score).ok

ChartRows(d) == [i \in 1..Len(d) |-> [SDG |-> d[i].key, Score |-> PyInt(d[i].val.score).val]]

ChartDrawn ==
    /\ pc = "chart"
    /\ ScoresAreInts(parsed_results)
    /\ chart' = [drawn |-> TRUE, rows |-> SortBySDG(ChartRows(parsed_results))]
    /\ pc' = "write"
    /\ UNCHANGED <<uploaded_file, proposal_text, preview, pressed, posts, response,
                   errors, progress_bar, progress_text, evaluation_result,
                   parsed_results, results_header, written, exception, parseVars>>

\* int(data['score']) raises ValueError
ChartFails ==
    /\ pc = "chart"
    /\ ~ScoresAreInts(parsed_results)
    /\ exception' = "ValueError"
    /\ pc' = "done"
    /\ UNCHANGED <<uploaded_file, proposal_text, preview, pressed, posts, response,
                   errors, progress_bar, progress_text, evaluation_result,
                   parsed_results, results_header, chart, written, parseVars>>

WriteLines ==
    /\ pc = "write"
    /\ written' = [i \in 1..Len(parsed_results) |->
                     [sdg |-> parsed_results[i].key,
                      score |-> parsed_results[i].val.score,
                      explanation |-> parsed_results[i].val.explanation]]
    /\ pc' = "done"
    /\ UNCHANGED <<uploaded_file, proposal_text, preview, pressed, posts, response,
                   errors, progress_bar, progress_text, evaluation_result,
                   parsed_results, results_header, chart, exception, parseVars>>

Next ==
    \/ NoUpload
    \/ \E f \in Files : ExtractPdf(f)
    \/ \E f \in Files : ExtractDocx(f)
    \/ \E f \in Files : ExtractUnsupported(f)
    \/ ButtonNotPressed
    \/ ButtonPressed
    \/ \E resp \in Responses : EvaluateReturns(resp)
    \/ \E resp \in Responses : EvaluateRaises(resp)
    \/ ResultUnbound
    \/ ResultFalsy
    \/ ParseResults
    \/ ParseAborts
    \/ ChartDrawn
    \/ ChartFails
    \/ WriteLines

Spec == Init /\ [][Next]_vars

(***************************************************************************)
(* Direct calls of the parser                                              *)
(***************************************************************************)
ParseReturn ==
    /\ ppc = "call"
    /\ parse_evaluation_text(evaluation_text).raised = "none"
    /\ parse_ret' = parse_evaluation_text(evaluation_text)
    /\ ppc' = "returned"
    /\ UNCHANGED <<evaluation_text, mainVars>>

ParseRaise ==
    /\ ppc = "call"
    /\ parse_evaluation_text(evaluation_text).raised # "none"
    /\ parse_ret' = parse_evaluation_text(evaluation_text)
    /\ ppc' = "raised"
    /\ UNCHANGED <<evaluation_text, mainVars>>

ParseInit ==
    /\ ppc = "call"
    /\ evaluation_text \in Texts(MaxLines)
    /\ parse_ret = NoRet
    /\ pc = "idle"
    /\ uploaded_file = NoFile
    /\ proposal_text = Unbound
    /\ preview = <<>>
    /\ pressed = FALSE
    /\ posts = 0
    /\ response = NoResponse
    /\ errors = {}
    /\ progress_bar = "absent"
    /\ progress_text = "absent"
    /\ evaluation_result = Unbound
    /\ parsed_results = <<>>
    /\ results_header = FALSE
    /\ chart = NoChart
    /\ written = <<>>
    /\ exception = "none"

ParseNext == ParseReturn \/ ParseRaise

ParseSpec == ParseInit /\ [][ParseNext]_vars

(***************************************************************************)
(* Terms of the parser claims                                              *)
(***************************************************************************)
LinesOf(text) == Split(text, Newline)
IsSdgLine(l) == StartsWith(Strip(l), SDG)
HasColon(l) == Find(Strip(l), Colon) # 0
LabelOf(l) == Strip(SplitOnce(Strip(l), Colon)[1])
LabelHasDigit(l) == \E i \in 1..Len(LabelOf(l)) : LabelOf(l)[i] \in Digits
RemainderOf(l) == Strip(SplitOnce(Strip(l), Colon)[2])
HasSep(l) == Find(RemainderOf(l), Sep) # 0
ValidLine(l) == IsSdgLine(l) /\ HasColon(l) /\ LabelHasDigit(l) /\ HasSep(l)
NumberOf(l) == DigitsToInt(FirstDigitRun(LabelOf(l)))
DataOf(l) == [score |-> Strip(SplitOnce(RemainderOf(l), Sep)[1]),
              explanation |-> Strip(SplitOnce(RemainderOf(l), Sep)[2])]

ValidAt(lines, n) == {i \in 1..Len(lines) : ValidLine(lines[i]) /\ NumberOf(lines[i]) = n}
LastValidAt(lines, n) == CHOOSE i \in ValidAt(lines, n) : \A j \in ValidAt(lines, n) : j <= i
EntriesOf(d, n) == {j \in 1..Len(d) : d[j].key = n}

\* the number n has exactly one entry, holding the data of its last valid line
HoldsLast(d, lines, n) ==
    /\ Cardinality(EntriesOf(d, n)) = 1
    /\ \A j \in EntriesOf(d, n) : d[j].val = DataOf(lines[LastValidAt(lines, n)])

\* the mapping is exactly what the valid lines give, every other line dropped
ValidLinesKept(ret, lines) ==
    /\ ret.raised = "none"
    /\ \A j \in 1..Len(ret.results) : ValidAt(lines, ret.results[j].key) # {}
    /\ \A i \in 1..Len(lines) :
          ValidLine(lines[i]) => HoldsLast(ret.results, lines, NumberOf(lines[i]))

Ascending(ks) == \A i \in 1..(Len(ks) - 1) : ks[i] < ks[i + 1]

ApiErrorAndNoResults ==
    /\ "API request failed" \in errors
    /\ evaluation_result = NoneV
    /\ ~results_header
    /\ ~chart.drawn

(***************************************************************************)
(* Claims                                                                  *)
(***************************************************************************)

\* C1: once the button was pressed, a run of main ends without an exception
\* escaping main, whatever the API answered and whatever the parsed scores are.
C1_NoExceptionEscapesMain ==
    (pc = "done" /\ pressed) => exception = "none"

\* C2: an unreadable document yields no text (None), and in a run where
\* extraction yielded no text no HTTP POST is issued.
C2_NoPostWithoutText ==
    /\ (pc # "start" /\ uploaded_file.type \in {PdfMime, DocxMime} /\ ~uploaded_file.readable)
          => proposal_text = NoneV
    /\ proposal_text = NoneV => posts = 0

\* C3 (as stated): after any answer with a non-2xx status an error is
\* reported, evaluate_proposal returned None and neither the results section
\* nor the bar chart is rendered.
C3_NonSuccessStatusNoResults ==
    (response.kind = "http" /\ ~(200 <= response.status /\ response.status < 300))
        => /\ errors # {}
           /\ evaluation_result = NoneV
           /\ ~results_header
           /\ ~chart.drawn

\* C3 (amended): after an answer with status 500, or any 4xx or 5xx status, an
\* API error is reported, evaluate_proposal returned None and neither the
\* results section nor the bar chart is rendered.
C3_ErrorStatusNoResults ==
    (response.kind = "http" /\ 400 <= response.status /\ response.status < 600)
        => ApiErrorAndNoResults

\* C3 witness: a run ended after a 500 answer whose body carried a reply that
\* would have parsed and charted.
C3_Witness ==
    /\ pc = "done"
    /\ response.kind = "http"
    /\ response.status = 500
    /\ response.body.shape = "content"
    /\ parse_evaluation_text(response.body.content).raised = "none"
    /\ parse_evaluation_text(response.body.content).results # <<>>
    /\ ScoresAreInts(parse_evaluation_text(response.body.content).results)

\* C4: a file of another media type ends the run in the "unsupported format"
\* state: an error message is shown, the proposal text is None, no evaluation
\* is started and no exception escapes.
C4_UnsupportedFormatHandled ==
    (pc = "done" /\ uploaded_file.type = OtherMime)
        => /\ exception = "none"
           /\ errors # {}
           /\ proposal_text = NoneV
           /\ posts = 0

\* C5: a text holding an SDG line with a colon whose remainder lacks " - " is
\* parsed with that line dropped: the call returns a mapping that holds exactly
\* the valid lines' entries.
C5_MissingSeparatorDropped ==
    (ppc # "call" /\ \E i \in 1..Len(LinesOf(evaluation_text)) :
            LET l == LinesOf(evaluation_text)[i]
            IN IsSdgLine(l) /\ HasColon(l) /\ ~HasSep(l))
        => ValidLinesKept(parse_ret, LinesOf(evaluation_text))

\* C6: when several valid lines carry the same SDG number, the returned
\* mapping has exactly one entry for that number, holding the score and the
\* explanation of the last such line.
C6_LastDuplicateWins ==
    ppc = "returned" =>
        \A i \in 1..Len(LinesOf(evaluation_text)) :
            LET lines == LinesOf(evaluation_text)
            IN (ValidLine(lines[i]) /\ Cardinality(ValidAt(lines, NumberOf(lines[i]))) >= 2)
                  => HoldsLast(parse_ret.results, lines, NumberOf(lines[i]))

\* C6 witness: a returned parse of a text with two valid lines of one SDG
\* number that differ in score and explanation.
C6_Witness ==
    /\ ppc = "returned"
    /\ \E i, j \in 1..Len(LinesOf(evaluation_text)) :
          LET lines == LinesOf(evaluation_text)
          IN /\ i < j
             /\ ValidLine(lines[i]) /\ ValidLine(lines[j])
             /\ NumberOf(lines[i]) = NumberOf(lines[j])
             /\ DataOf(lines[i]).score # DataOf(lines[j]).score
             /\ DataOf(lines[i]).explanation # DataOf(lines[j]).explanation

\* C7: a text holding an SDG line with no digit in its label part is parsed
\* with that line skipped: the call returns a mapping that holds the valid
\* lines' entries.
C7_NoDigitLabelSkipped ==
    (ppc # "call" /\ \E i \in 1..Len(LinesOf(evaluation_text)) :
            LET l == LinesOf(evaluation_text)[i]
            IN IsSdgLine(l) /\ ~LabelHasDigit(l))
        => ValidLinesKept(parse_ret, LinesOf(evaluation_text))

\* C8: a text holding an SDG line with digits but no colon is parsed with that
\* line dropped: the call returns a mapping that holds the valid lines' entries.
C8_NoColonLineDropped ==
    (ppc # "call" /\ \E i \in 1..Len(LinesOf(evaluation_text)) :
            LET l == LinesOf(evaluation_text)[i]
            IN IsSdgLine(l) /\ LabelHasDigit(l) /\ ~HasColon(l))
        => ValidLinesKept(parse_ret, LinesOf(evaluation_text))

\* C9: a run in which the evaluation failed after the button press (None
\* returned, or an exception raised) never ends with the progress bar at 100%
\* and the status text "Evaluation complete!".
C9_ProgressClearedOnFailure ==
    (pc = "done" /\ pressed /\ evaluation_result \in {NoneV, Unbound})
        => ~(progress_bar = "100" /\ progress_text = "Evaluation complete!")

\* C10: the rows behind the bar chart and the per-SDG text lines are both
\* emitted in ascending SDG number.
C10_DisplaySortedBySdg ==
    (pc = "done" /\ chart.drawn)
        => /\ Ascending([i \in 1..Len(chart.rows) |-> chart.rows[i].SDG])
           /\ Ascending([i \in 1..Len(written) |-> written[i].sdg])

====
